---- MODULE Spec2Model ----
(***************************************************************************)
(* Model of the MySQL natural-language query service (src/app.py,          *)
(* src/llm_interaction.py): the session-keyed connection pool, the         *)
(* conversation histories, the periodic session sweep and the request      *)
(* handlers that use them.  Every request is served by a worker thread;    *)
(* a thread's position in its handler is th[t].pc.                         *)
(***************************************************************************)
EXTENDS Integers, Sequences, FiniteSets, TLC

(* ------------------------------ bounds --------------------------------- *)
MaxConns == 2
MaxChunks == 2
MaxTurns == 2
MaxAppends == 12
MaxSuffix == 3
MaxBody == 3
MaxTail == 3
TickStep == 601
MaxTime == 601

(* ------------------------- program constants --------------------------- *)
CleanupInterval == 600
HistoryLimit == 10

Threads == {"t1", "t2"}
MainThread == "t1"
Sessions == {"s1", "s2"}
NoSession == "none"
Questions == {"q1"}
NoThread == "none"
None == 0

(* A request's database config is the ordered list of the members of the  *)
(* JSON object the client sent.                                            *)
cfgA == << <<"host", "db1">>, <<"username", "u">>, <<"password", "p1">>, <<"database", "shop">> >>
cfgA2 == << <<"host", "db1">>, <<"username", "u">>, <<"password", "p2">>, <<"database", "shop">> >>
cfgAr == << <<"username", "u">>, <<"host", "db1">>, <<"password", "p1">>, <<"database", "shop">> >>
cfgB == << <<"host", "db1">>, <<"username", "u">>, <<"password", "p1">>, <<"database", "crm">> >>
AllConfigs == {cfgA, cfgA2, cfgAr, cfgB}

VARIABLES
    active_connections,     \* session id -> (connection key -> connection)
    conversation_histories, \* session id -> sequence of turns
    connection_lock,        \* the thread holding connection_lock, or NoThread
    conns,                  \* the connection objects created so far
    has_last_cleanup,       \* hasattr(app, 'last_cleanup')
    last_cleanup,           \* app.last_cleanup
    now,                    \* time.time()
    th,                     \* per worker thread: the request it serves
    sweep_starts            \* history: the clock readings of the sweeps started

vars == <<active_connections, conversation_histories, connection_lock, conns,
          has_last_cleanup, last_cleanup, now, th, sweep_starts>>

(* ------------------------------ helpers -------------------------------- *)
DictDel(d, k) == [x \in (DOMAIN d) \ {k} |-> d[x]]
DictPut(d, k, v) == [x \in (DOMAIN d) \cup {k} |-> IF x = k THEN v ELSE d[x]]
EmptyDict == [x \in {} |-> 0]
Values(d) == {d[x] : x \in DOMAIN d}

RECURSIVE FilterPairs(_)
FilterPairs(cfg) ==
    IF cfg = <<>> THEN <<>>
    ELSE IF Head(cfg)[1] = "password" THEN FilterPairs(Tail(cfg))
    ELSE <<Head(cfg)>> \o FilterPairs(Tail(cfg))

(* json.dumps of the config without its password: an injective encoding   *)
(* of the remaining members in the order the config lists them.            *)
connection_key(config) == FilterPairs(config)

(* The fields of a config or of a key, whatever the order of its members.  *)
Fields(cfg) == {cfg[i] : i \in 1..Len(cfg)}
Fingerprint(cfg) == {kv \in Fields(cfg) : kv[1] # "password"}

is_connected(c) == conns[c].connected

(* connection.close() on every connection of `pooled` that still answers   *)
(* is_connected().                                                         *)
CloseAll(cs, pooled) ==
    [c \in DOMAIN cs |->
        IF c \in pooled /\ cs[c].connected
        THEN [cs[c] EXCEPT !.connected = FALSE] ELSE cs[c]]

(* The keys of the Flask session object of the request a thread serves:    *)
(* the cookie holds 'session_id' once get_session_id has stored one.       *)
SessionKeys(t) == IF th[t].cookie THEN {"session_id"} ELSE {}

KnownSessions ==
    (DOMAIN active_connections) \cup (DOMAIN conversation_histories)
        \cup {th[u].sid : u \in Threads}

IdleThread ==
    [pc |-> "idle", kind |-> "none", sid |-> NoSession, cookie |-> FALSE,
     config |-> <<>>, connection |-> None, current_time |-> 0, todo |-> {},
     cur |-> NoSession, ret |-> "none", fault |-> "none",
     events |-> <<>>, sql_query |-> <<>>, results |-> "none", executed |-> <<>>,
     raised |-> FALSE, response |-> "none", explained |-> "none",
     question |-> "none", err |-> "none", rolled_back |-> FALSE, appended |-> 0,
     llm_output |-> <<>>, inputs |-> <<>>, structure |-> "none",
     llm_called |-> FALSE, delivered |-> "none", outcome |-> "none",
     db_info |-> <<>>, schema_type |-> "none", conversation_history |-> <<>>]

Init ==
    /\ active_connections = EmptyDict
    /\ conversation_histories = EmptyDict
    /\ connection_lock = NoThread
    /\ conns = <<>>
    /\ has_last_cleanup = FALSE
    /\ last_cleanup = 0
    /\ now = 0
    /\ th = [t \in Threads |-> IdleThread]
    /\ sweep_starts = {}

(* ------------------------------ environment ---------------------------- *)
Tick ==
    /\ now + TickStep <= MaxTime
    /\ now' = now + TickStep
    /\ UNCHANGED <<active_connections, conversation_histories, connection_lock,
                   conns, has_last_cleanup, last_cleanup, th, sweep_starts>>

(* The server or the network drops a connection. *)
ConnDrop ==
    /\ \E c \in DOMAIN conns :
        /\ conns[c].connected
        /\ conns' = [conns EXCEPT ![c].connected = FALSE]
    /\ UNCHANGED <<active_connections, conversation_histories, connection_lock,
                   has_last_cleanup, last_cleanup, now, th, sweep_starts>>

(* ------------------------------- routing ------------------------------- *)
(* Where a request of each kind enters its handler once before_request     *)
(* has returned.                                                           *)
HandlerEntry(kind) ==
    CASE kind = "acquire" -> "acq_check"
      [] kind = "close" -> "cl_loop"
      [] kind = "clear" -> "clear"
      [] kind = "stream" -> "st_prep"
      [] kind = "nl" -> "acq_check"
(* Where get_or_create_connection returns to. *)
AcquireReturn(kind) ==
    CASE kind = "stream" -> "st_parse"
      [] kind = "nl" -> "nl_gen"
      [] OTHER -> "done"

(* get_session_id(): the id in the session cookie, else a new uuid4 that   *)
(* is stored in the cookie.  th[t].sid is that id.                         *)
get_session_id(t) == th[t].sid

(* ----------------- cleanup_old_sessions (before_request) ---------------- *)
(* line 904: no sweep was recorded yet, or the last one is older than the  *)
(* interval.                                                               *)
SweepDue == ~has_last_cleanup \/ now - last_cleanup > CleanupInterval

(* A client sends a request of one of `kinds` with one of `configs`; its   *)
(* cookie carries a session id, or it is a new client.  line 902-904: the  *)
(* request reads the clock and tests the interval.                         *)
StartRequest(t, kinds, configs, cookies, sessions) ==
    /\ th[t].pc = "idle"
    /\ \E k \in kinds, sid \in sessions, ck \in cookies, cfg \in configs,
          q \in Questions :
        /\ ~ck => sid \notin KnownSessions
        /\ th' = [th EXCEPT ![t] =
                    [IdleThread EXCEPT
                        !.kind = k, !.sid = sid, !.cookie = ck, !.config = cfg,
                        !.question = IF k \in {"stream", "nl"} THEN q ELSE "none",
                        !.ret = AcquireReturn(k),
                        !.current_time = IF SweepDue THEN now ELSE 0,
                        !.pc = IF SweepDue THEN "bf_set" ELSE HandlerEntry(k)]]
    /\ UNCHANGED <<active_connections, conversation_histories, connection_lock,
                   conns, has_last_cleanup, last_cleanup, now, sweep_starts>>

(* line 905-909: record the sweep and snapshot the pooled session ids.     *)
SweepSet(t) ==
    /\ th[t].pc = "bf_set"
    /\ has_last_cleanup' = TRUE
    /\ last_cleanup' = th[t].current_time
    /\ sweep_starts' = sweep_starts \cup {th[t].current_time}
    /\ th' = [th EXCEPT ![t].todo = DOMAIN active_connections, ![t].pc = "bf_loop",
                        ![t].current_time = 0]
    /\ UNCHANGED <<active_connections, conversation_histories, connection_lock,
                   conns, now>>

(* line 909-913: the next pooled session; unless its id is a key of the    *)
(* Flask session, close its connections.  No lock is taken.                *)
SweepLoop(t) ==
    /\ th[t].pc = "bf_loop"
    /\ IF th[t].todo = {}
       THEN /\ th' = [th EXCEPT ![t].pc = HandlerEntry(th[t].kind)]
            /\ UNCHANGED conns
       ELSE \E sid \in th[t].todo :
            IF sid \notin SessionKeys(t)
            THEN IF sid \in DOMAIN active_connections
                 THEN /\ conns' = CloseAll(conns, Values(active_connections[sid]))
                      /\ th' = [th EXCEPT ![t].cur = sid, ![t].pc = "bf_del"]
                 ELSE \* KeyError: the request fails before its handler runs
                      /\ th' = [th EXCEPT ![t].pc = "failed", ![t].fault = "sweep"]
                      /\ UNCHANGED conns
            ELSE /\ th' = [th EXCEPT ![t].todo = @ \ {sid}]
                 /\ UNCHANGED conns
    /\ UNCHANGED <<active_connections, conversation_histories, connection_lock,
                   has_last_cleanup, last_cleanup, now, sweep_starts>>

(* line 914-916: drop the session's pool entry and its history.            *)
SweepDel(t) ==
    /\ th[t].pc = "bf_del"
    /\ IF th[t].cur \in DOMAIN active_connections
       THEN /\ active_connections' = DictDel(active_connections, th[t].cur)
            /\ conversation_histories' = DictDel(conversation_histories, th[t].cur)
            /\ th' = [th EXCEPT ![t].todo = @ \ {th[t].cur}, ![t].cur = NoSession,
                                ![t].pc = "bf_loop"]
       ELSE /\ th' = [th EXCEPT ![t].pc = "failed", ![t].fault = "sweep"]
            /\ UNCHANGED <<active_connections, conversation_histories>>
    /\ UNCHANGED <<connection_lock, conns, has_last_cleanup, last_cleanup, now,
                   sweep_starts>>

cleanup_old_sessions(t) == SweepSet(t) \/ SweepLoop(t) \/ SweepDel(t)

(* ----------------------- get_or_create_connection ----------------------- *)
(* create_connection(config): mysql.connector.connect succeeded.           *)
create_connection(sid, config) ==
    Append(conns, [connected |-> TRUE, sid |-> sid, key |-> connection_key(config),
                   txn |-> FALSE])

(* AcqCheck entering without waiting for connection_lock.                  *)
AcqCheckUnlocked(t) ==
    /\ th[t].pc = "acq_check"
    /\ connection_lock' = t
    /\ LET sid == get_session_id(t)
           key == connection_key(th[t].config)
       IN th' = [th EXCEPT ![t].pc =
                    IF sid \in DOMAIN active_connections
                       /\ key \in DOMAIN active_connections[sid]
                    THEN "acq_probe" ELSE "acq_create"]
    /\ UNCHANGED <<active_connections, conversation_histories, conns,
                   has_last_cleanup, last_cleanup, now, sweep_starts>>

(* line 179-181: take connection_lock; is there a pooled connection under  *)
(* this session and key?                                                   *)
AcqCheck(t) ==
    /\ th[t].pc = "acq_check"
    /\ connection_lock = NoThread
    /\ connection_lock' = t
    /\ LET sid == get_session_id(t)
           key == connection_key(th[t].config)
       IN th' = [th EXCEPT ![t].pc =
                    IF sid \in DOMAIN active_connections
                       /\ key \in DOMAIN active_connections[sid]
                    THEN "acq_probe" ELSE "acq_create"]
    /\ UNCHANGED <<active_connections, conversation_histories, conns,
                   has_last_cleanup, last_cleanup, now, sweep_starts>>

(* The probe that leaves a dead connection in the pool.                    *)
AcqProbeKeep(t) ==
    /\ th[t].pc = "acq_probe"
    /\ LET sid == get_session_id(t)
           key == connection_key(th[t].config)
       IN IF sid \in DOMAIN active_connections /\ key \in DOMAIN active_connections[sid]
          THEN LET c == active_connections[sid][key]
               IN IF is_connected(c)
                  THEN /\ th' = [th EXCEPT ![t].connection = c, ![t].pc = th[t].ret]
                       /\ connection_lock' = NoThread
                  ELSE /\ th' = [th EXCEPT ![t].pc = "acq_create"]
                       /\ UNCHANGED connection_lock
          ELSE /\ th' = [th EXCEPT ![t].fault = "acquire", ![t].pc = th[t].ret]
               /\ connection_lock' = NoThread
    /\ UNCHANGED <<active_connections, conversation_histories, conns,
                   has_last_cleanup, last_cleanup, now, sweep_starts>>

(* line 182-188: probe the pooled connection; return it, or discard it.    *)
AcqProbe(t) ==
    /\ th[t].pc = "acq_probe"
    /\ LET sid == get_session_id(t)
           key == connection_key(th[t].config)
       IN IF sid \in DOMAIN active_connections /\ key \in DOMAIN active_connections[sid]
          THEN LET c == active_connections[sid][key]
               IN IF is_connected(c)
                  THEN /\ th' = [th EXCEPT ![t].connection = c, ![t].pc = th[t].ret]
                       /\ connection_lock' = NoThread
                       /\ UNCHANGED active_connections
                  ELSE /\ active_connections' =
                            [active_connections EXCEPT ![sid] = DictDel(@, key)]
                       /\ th' = [th EXCEPT ![t].pc = "acq_create"]
                       /\ UNCHANGED connection_lock
          ELSE \* KeyError: the entry was removed meanwhile; the with block unlocks
               /\ th' = [th EXCEPT ![t].fault = "acquire", ![t].pc = th[t].ret]
               /\ connection_lock' = NoThread
               /\ UNCHANGED active_connections
    /\ UNCHANGED <<conversation_histories, conns, has_last_cleanup, last_cleanup,
                   now, sweep_starts>>

(* line 191: create_connection(config); it raises when the connect fails.  *)
AcqCreate(t) ==
    /\ th[t].pc = "acq_create"
    /\ \/ /\ Len(conns) < MaxConns
          /\ conns' = create_connection(get_session_id(t), th[t].config)
          /\ th' = [th EXCEPT ![t].connection = Len(conns) + 1, ![t].pc = "acq_store"]
          /\ UNCHANGED connection_lock
       \/ /\ th' = [th EXCEPT ![t].fault = "acquire", ![t].pc = th[t].ret]
          /\ connection_lock' = NoThread
          /\ UNCHANGED conns
    /\ UNCHANGED <<active_connections, conversation_histories, has_last_cleanup,
                   last_cleanup, now, sweep_starts>>

(* The new connection is stored and returned with the lock still held.    *)
AcqStoreHolding(t) ==
    /\ th[t].pc = "acq_store"
    /\ LET sid == get_session_id(t)
           key == connection_key(th[t].config)
           cur == IF sid \in DOMAIN active_connections
                  THEN active_connections[sid] ELSE EmptyDict
       IN active_connections' =
              DictPut(active_connections, sid, DictPut(cur, key, th[t].connection))
    /\ th' = [th EXCEPT ![t].pc = th[t].ret]
    /\ UNCHANGED <<connection_lock, conversation_histories, conns,
                   has_last_cleanup, last_cleanup, now, sweep_starts>>

(* line 194-198: store the new connection and return it.                   *)
AcqStore(t) ==
    /\ th[t].pc = "acq_store"
    /\ LET sid == get_session_id(t)
           key == connection_key(th[t].config)
           cur == IF sid \in DOMAIN active_connections
                  THEN active_connections[sid] ELSE EmptyDict
       IN active_connections' =
              DictPut(active_connections, sid, DictPut(cur, key, th[t].connection))
    /\ connection_lock' = NoThread
    /\ th' = [th EXCEPT ![t].pc = th[t].ret]
    /\ UNCHANGED <<conversation_histories, conns, has_last_cleanup, last_cleanup,
                   now, sweep_starts>>

get_or_create_connection(t) ==
    AcqCheck(t) \/ AcqProbe(t) \/ AcqCreate(t) \/ AcqStore(t)

(* ------------------------------- handlers ------------------------------ *)
(* close_connections, line 872-876: close what the session has pooled.     *)
CloseLoop(t) ==
    /\ th[t].pc = "cl_loop"
    /\ LET sid == get_session_id(t)
       IN IF sid \in DOMAIN active_connections
          THEN /\ conns' = CloseAll(conns, Values(active_connections[sid]))
               /\ th' = [th EXCEPT ![t].pc = "cl_reset"]
          ELSE /\ th' = [th EXCEPT ![t].pc = "done"]
               /\ UNCHANGED conns
    /\ UNCHANGED <<active_connections, conversation_histories, connection_lock,
                   has_last_cleanup, last_cleanup, now, sweep_starts>>

(* close_connections, line 877: active_connections[session_id] = {}        *)
CloseReset(t) ==
    /\ th[t].pc = "cl_reset"
    /\ active_connections' = DictPut(active_connections, get_session_id(t), EmptyDict)
    /\ th' = [th EXCEPT ![t].pc = "done"]
    /\ UNCHANGED <<conversation_histories, connection_lock, conns,
                   has_last_cleanup, last_cleanup, now, sweep_starts>>

close_connections(t) == CloseLoop(t) \/ CloseReset(t)

(* Every session's history becomes empty.                                  *)
ClearedHistoryAll(h, session_id) == [s \in DOMAIN h |-> <<>>]

(* clear_history, line 654-655: an existing history becomes empty.         *)
ClearedHistory(h, session_id) ==
    IF session_id \in DOMAIN h THEN [h EXCEPT ![session_id] = <<>>] ELSE h

(* clear_history, line 651-656 *)
clear_history(t) ==
    /\ th[t].pc = "clear"
    /\ conversation_histories' =
          ClearedHistory(conversation_histories, get_session_id(t))
    /\ th' = [th EXCEPT ![t].pc = "done"]
    /\ UNCHANGED <<active_connections, connection_lock, conns, has_last_cleanup,
                   last_cleanup, now, sweep_starts>>

(* The response has been sent; the worker takes the next request.          *)
Finish(t) ==
    /\ th[t].pc \in {"done", "failed"}
    /\ th' = [th EXCEPT ![t] = IdleThread]
    /\ UNCHANGED <<active_connections, conversation_histories, connection_lock,
                   conns, has_last_cleanup, last_cleanup, now, sweep_starts>>

(* ------------------------------- texts --------------------------------- *)
(* A text is a sequence of tokens: words, the code fence, the comment      *)
(* marker, the statement terminator, a space or a line break.              *)
Fence == "~~~"
IsWs(tok) == tok \in {" ", "\n"}
NonWord == {Fence, "--", ";", " ", "\n"}
(* The token begins (ends) with a word character, for \b.                  *)
StartsWord(tok) == tok \notin NonWord
EndsWord(tok) == tok \notin NonWord \cup {"ERROR:", "error:"}

(* str.lower() *)
Lower(tok) ==
    CASE tok = "SELECT" -> "select"
      [] tok = "UPDATE" -> "update"
      [] tok = "DELETE" -> "delete"
      [] tok = "FROM" -> "from"
      [] tok = "WHERE" -> "where"
      [] tok = "DROP" -> "drop"
      [] tok = "TABLE" -> "table"
      [] tok = "SQL" -> "sql"
      [] tok = "ERROR:" -> "error:"
      [] tok = "DATABASE" -> "database"
      [] tok = "TRUNCATE" -> "truncate"
      [] tok = "ALTER" -> "alter"
      [] tok = "X" -> "x"
      [] OTHER -> tok
LowerText(s) == [i \in 1..Len(s) |-> Lower(s[i])]

RECURSIVE LStrip(_)
LStrip(s) == IF s # <<>> /\ IsWs(Head(s)) THEN LStrip(Tail(s)) ELSE s
RECURSIVE RStrip(_)
RStrip(s) == IF s # <<>> /\ IsWs(s[Len(s)]) THEN RStrip(SubSeq(s, 1, Len(s) - 1)) ELSE s
(* str.strip() *)
Strip(s) == RStrip(LStrip(s))

(* re.sub(r'^<fence>sql\s*', '', s, flags=re.IGNORECASE) *)
StripLeadingFence(s) ==
    IF Len(s) >= 2 /\ s[1] = Fence /\ Lower(s[2]) = "sql"
    THEN LStrip(SubSeq(s, 3, Len(s))) ELSE s

(* re.sub(r'\s*<fence>$', '', s): the pattern also matches before a final      *)
(* line break, which it leaves in place.                                   *)
StripTrailingFence(s) ==
    IF s # <<>> /\ s[Len(s)] = Fence
    THEN RStrip(SubSeq(s, 1, Len(s) - 1))
    ELSE IF Len(s) >= 2 /\ s[Len(s)] = "\n" /\ s[Len(s) - 1] = Fence
    THEN RStrip(SubSeq(s, 1, Len(s) - 2)) \o <<"\n">>
    ELSE s

(* str.splitlines(): the lines between line breaks, without a final empty  *)
(* line.                                                                   *)
RECURSIVE SplitLines(_, _)
SplitLines(s, cur) ==
    IF s = <<>> THEN (IF cur = <<>> THEN <<>> ELSE <<cur>>)
    ELSE IF Head(s) = "\n" THEN <<cur>> \o SplitLines(Tail(s), <<>>)
    ELSE SplitLines(Tail(s), Append(cur, Head(s)))

(* The cut dropping every line that holds a comment marker.                *)
CutInlineCommentLine(line) ==
    IF \E i \in 1..Len(line) : line[i] = "--" THEN <<>> ELSE line

(* re.sub(r'\s*--.*$', '', line): cut at the whitespace before the first   *)
(* comment marker of the line.                                             *)
RECURSIVE CutInlineComment(_)
CutInlineComment(line) ==
    IF line = <<>> THEN <<>>
    ELSE IF LStrip(line) # <<>> /\ Head(LStrip(line)) = "--" THEN <<>>
    ELSE <<Head(line)>> \o CutInlineComment(Tail(line))

(* line 226-232: the lines kept, each without its inline comment.          *)
RECURSIVE CleanLines(_)
CleanLines(lines) ==
    IF lines = <<>> THEN <<>>
    ELSE LET line == Head(lines)
             stripped_line == Strip(line)
             keep == stripped_line # <<>> /\ Head(stripped_line) # "--"
                        /\ Strip(CutInlineComment(line)) # <<>>
         IN (IF keep THEN <<CutInlineComment(line)>> ELSE <<>>)
                \o CleanLines(Tail(lines))

(* " ".join(lines) *)
RECURSIVE JoinSpace(_)
JoinSpace(lines) ==
    IF lines = <<>> THEN <<>>
    ELSE IF Len(lines) = 1 THEN Head(lines)
    ELSE Head(lines) \o <<" ">> \o JoinSpace(Tail(lines))

(* re.sub(r'\s+', ' ', s) *)
RECURSIVE CollapseWs(_)
CollapseWs(s) ==
    IF s = <<>> THEN <<>>
    ELSE IF IsWs(Head(s)) THEN <<" ">> \o CollapseWs(LStrip(s))
    ELSE <<Head(s)>> \o CollapseWs(Tail(s))

(* clean_sql_query, line 214-242 *)
clean_sql_query(raw) ==
    LET a == Strip(StripLeadingFence(raw))
        b == Strip(StripTrailingFence(a))
        c == Strip(CollapseWs(JoinSpace(CleanLines(SplitLines(b, <<>>)))))
    IN IF c # <<>> /\ c[Len(c)] = ";" THEN Strip(SubSeq(c, 1, Len(c) - 1)) ELSE c

(* \bW\b at position i of s *)
WordAt(s, i, w) ==
    /\ s[i] = w
    /\ i = 1 \/ ~EndsWord(s[i - 1])
    /\ i = Len(s) \/ ~StartsWord(s[i + 1])
(* \bW1\s+W2\b starting at i and ending at j *)
PairAt(s, i, j, w1, w2) ==
    /\ i + 1 < j
    /\ s[i] = w1 /\ (i = 1 \/ ~EndsWord(s[i - 1]))
    /\ \A k \in (i + 1)..(j - 1) : IsWs(s[k])
    /\ s[j] = w2 /\ (j = Len(s) \/ ~StartsWord(s[j + 1]))
HasPair(s, w1, w2) == \E i, j \in 1..Len(s) : PairAt(s, i, j, w1, w2)
(* .*\bW\b after position j: W stands later on the same line *)
LaterOnLine(s, j, w) ==
    \E k \in (j + 1)..Len(s) :
        /\ WordAt(s, k, w)
        /\ \A m \in (j + 1)..k : s[m] # "\n"

(* is_dangerous_sql without its last pattern.                              *)
is_dangerous_sql_short(sql_query) ==
    LET sql_lower == LowerText(sql_query)
        n == Len(sql_lower)
    IN \/ HasPair(sql_lower, "drop", "database")
       \/ HasPair(sql_lower, "drop", "table")
       \/ HasPair(sql_lower, "truncate", "table")
       \/ \E i, j \in 1..n : /\ PairAt(sql_lower, i, j, "delete", "from")
                             /\ ~LaterOnLine(sql_lower, j, "where")
       \/ \E i, j \in 1..n : /\ PairAt(sql_lower, i, j, "alter", "table")
                             /\ LaterOnLine(sql_lower, j, "drop")

(* is_dangerous_sql, line 244-263 *)
is_dangerous_sql(sql_query) ==
    LET sql_lower == LowerText(sql_query)
        n == Len(sql_lower)
    IN \/ HasPair(sql_lower, "drop", "database")
       \/ HasPair(sql_lower, "drop", "table")
       \/ HasPair(sql_lower, "truncate", "table")
       \/ \E i, j \in 1..n : /\ PairAt(sql_lower, i, j, "delete", "from")
                             /\ ~LaterOnLine(sql_lower, j, "where")
       \/ \E i, j \in 1..n : /\ PairAt(sql_lower, i, j, "alter", "table")
                             /\ LaterOnLine(sql_lower, j, "drop")
       \/ \E i \in 1..n : /\ WordAt(sql_lower, i, "update")
                          /\ ~LaterOnLine(sql_lower, i, "where")

(* --------------------------- schema inspection ------------------------- *)
(* What the inspector hands to generate_sql: the rich snapshot, the        *)
(* reduced dump, the "no database selected" message or the "structure      *)
(* unavailable" message.                                                   *)
(* get_database_structure_with_samples, db/utils.py line 64-124 *)
get_database_structure_with_samples(db_selected, reduced_ok) ==
    IF ~reduced_ok THEN "failed_msg"
    ELSE IF ~db_selected THEN "nodb_msg"
    ELSE "reduced"

(* get_enhanced_database_structure without the fallback at line 259-261.   *)
get_enhanced_database_structure_raw(db_selected, rich_ok, reduced_ok) ==
    IF rich_ok
    THEN (IF ~db_selected THEN "nodb_msg" ELSE "rich")
    ELSE "failed_msg"

(* get_enhanced_database_structure, db/utils.py line 126-264 *)
get_enhanced_database_structure(db_selected, rich_ok, reduced_ok) ==
    IF rich_ok
    THEN (IF ~db_selected THEN "nodb_msg" ELSE "rich")
    ELSE get_database_structure_with_samples(db_selected, reduced_ok)

(* ------------------------------ generate_sql ---------------------------- *)
Failure(kind) == [ok |-> FALSE, err |-> kind, sql |-> <<>>]
Success(sql) == [ok |-> TRUE, err |-> "none", sql |-> sql]

(* line 180-200: sanitize the backend's text, then the sentinel check, the *)
(* empty check and the destructive-operation filter.  The first variant    *)
(* is the same checks without the filter.                                  *)
CheckGeneratedUnfiltered(llm_output) ==
    LET sql_query == clean_sql_query(llm_output)
    IN IF sql_query # <<>> /\ Head(sql_query) = "ERROR:" THEN Failure("AmbiguousQuery")
       ELSE IF sql_query = <<>> THEN Failure("EmptyGeneration")
       ELSE Success(sql_query)

(* The same checks with the filter ahead of the sentinel check.           *)
CheckGeneratedFilterFirst(llm_output) ==
    LET sql_query == clean_sql_query(llm_output)
    IN IF is_dangerous_sql(sql_query) THEN Failure("UnsafeOperation")
       ELSE IF sql_query # <<>> /\ Head(sql_query) = "ERROR:" THEN Failure("AmbiguousQuery")
       ELSE IF sql_query = <<>> THEN Failure("EmptyGeneration")
       ELSE Success(sql_query)

CheckGenerated(llm_output) ==
    LET sql_query == clean_sql_query(llm_output)
    IN IF sql_query # <<>> /\ Head(sql_query) = "ERROR:" THEN Failure("AmbiguousQuery")
       ELSE IF sql_query = <<>> THEN Failure("EmptyGeneration")
       ELSE IF is_dangerous_sql(sql_query) THEN Failure("UnsafeOperation")
       ELSE Success(sql_query)

(* generate_sql, line 70-212.  connected: connection.is_connected();       *)
(* client_ok: get_client() succeeded; structure: what the inspector        *)
(* returned; llm_ok, llm_output: the backend call and its text.            *)
generate_sql(connected, client_ok, structure, llm_ok, llm_output) ==
    IF ~connected THEN Failure("ConnectionRequired")
    ELSE IF ~client_ok THEN Failure("GenerationBackendError")
    ELSE IF structure = "failed_msg" THEN Failure("SchemaUnavailable")
    ELSE IF ~llm_ok THEN Failure("GenerationBackendError")
    ELSE CheckGenerated(llm_output)

(* line 99-103: generate_sql asks the inspector for the structure once    *)
(* the connection is live and the client is there.                         *)
SchemaQueried(connected, client_ok) == connected /\ client_ok
(* line 164-171: generate_sql calls the backend once it has a structure.   *)
BackendInvoked(connected, client_ok, structure) ==
    connected /\ client_ok /\ structure # "failed_msg"

(* The texts the generation backend answers with. *)
rawSelect == <<"select", " ", "x">>
rawFenced == <<Fence, "SQL", "\n", "select", " ", "x", ";", "\n", Fence>>
rawSentinel == <<"ERROR:", " ", "Ambiguous", " ", "Query">>
rawUpdate == <<"UPDATE", " ", "x", " ", "set">>
rawUpdateWhere == <<"UPDATE", " ", "x", " ", "set", " ", "where">>
rawComment == <<"--", " ", "x">>
rawSentinelDrop == <<"ERROR:", " ", "DROP", " ", "TABLE", " ", "x">>
BackendTexts ==
    {rawSelect, rawFenced, rawSentinel, rawUpdate, rawUpdateWhere, rawComment,
     rawSentinelDrop}

(* ------------------------- conversation history ------------------------ *)
(* get_conversation_history, line 200-204: creates the session's entry.    *)
get_conversation_history(h, session_id) ==
    IF session_id \in DOMAIN h THEN h ELSE DictPut(h, session_id, <<>>)

(* add_to_conversation_history truncating only above the limit.           *)
add_to_conversation_history_late(h, session_id, user_question, sql_query) ==
    LET h1 == IF session_id \in DOMAIN h THEN h ELSE DictPut(h, session_id, <<>>)
        old == h1[session_id]
        kept == IF Len(old) > HistoryLimit
                THEN SubSeq(old, Len(old) - (HistoryLimit - 1) + 1, Len(old))
                ELSE old
    IN [h1 EXCEPT ![session_id] = Append(kept, <<user_question, sql_query>>)]

(* add_to_conversation_history, line 206-218 *)
add_to_conversation_history(h, session_id, user_question, sql_query) ==
    LET h1 == IF session_id \in DOMAIN h THEN h ELSE DictPut(h, session_id, <<>>)
        old == h1[session_id]
        kept == IF Len(old) >= HistoryLimit
                THEN SubSeq(old, Len(old) - (HistoryLimit - 1) + 1, Len(old))
                ELSE old
    IN [h1 EXCEPT ![session_id] = Append(kept, <<user_question, sql_query>>)]

(* ------------------------------ execution ------------------------------ *)
(* The statement yields a result set (llm_interaction.py line 396).        *)
HasResultSet(sql) == Lower(Head(sql)) \in {"select", "show", "describe", "explain"}

(* What cursor.execute(sql) can do on connection c: a driver error, some   *)
(* other exception, rows of plain values, rows holding date or decimal     *)
(* values, or no result set.                                               *)
ExecOutcomes(c, sql) ==
    {"driver_error", "other_error"} \cup
    (IF ~conns[c].connected THEN {}
     ELSE IF HasResultSet(sql) THEN {"rows_plain", "rows_typed"}
     ELSE {"no_result"})

(* The connection after the statement ran: a statement without a result    *)
(* set leaves its changes uncommitted (autocommit is off).                 *)
Executed(cs, c, out) ==
    IF out = "no_result" THEN [cs EXCEPT ![c].txn = TRUE] ELSE cs
Committed(cs, c) == [cs EXCEPT ![c].txn = FALSE]

(* How the rows of a result leave the server.  json.dumps raises          *)
(* TypeError on a date or a Decimal value.  jsonify hands them to Flask's  *)
(* JSON provider, which writes a date as RFC 822 text and a Decimal as a   *)
(* string.  Rows without such values are written as they are.              *)
json_dumps(rows) == IF rows = "rows_typed" THEN "TypeError" ELSE "unchanged"
jsonify(rows) == IF rows = "rows_typed" THEN "httpdate_str" ELSE "unchanged"

(* ------------------------- stream_query.generate ------------------------ *)
Emit(t, evs) == th[t].events \o evs

(* The except block without its error event.                               *)
StreamFailSilent(t, stage, evs) ==
    [th[t] EXCEPT !.events = Emit(t, evs), !.fault = stage,
                  !.raised = TRUE, !.pc = "done"]

(* line 631-637: one error event, then the exception is raised again.      *)
StreamFail(t, stage, evs) ==
    [th[t] EXCEPT !.events = Emit(t, evs \o <<"error">>), !.fault = stage,
                  !.raised = TRUE, !.pc = "done"]

(* line 541-552: the session's history is looked up, the generator starts. *)
StreamPrepare(t) ==
    /\ th[t].pc = "st_prep"
    /\ conversation_histories' =
          get_conversation_history(conversation_histories, get_session_id(t))
    /\ th' = [th EXCEPT ![t].events = Emit(t, <<"status:preparing">>),
                        ![t].pc = "acq_check"]
    /\ UNCHANGED <<active_connections, connection_lock, conns, has_last_cleanup,
                   last_cleanup, now, sweep_starts>>

(* line 557-580: the connection is there; generate_sql; the sql event.     *)
StreamParse(t) ==
    /\ th[t].pc = "st_parse"
    /\ IF th[t].fault # "none"
       THEN th' = [th EXCEPT ![t] = StreamFail(t, "acquire", <<>>)]
       ELSE \E client_ok, db_selected, rich_ok, reduced_ok, llm_ok \in BOOLEAN,
               llm_output \in BackendTexts :
            LET r == generate_sql(is_connected(th[t].connection), client_ok,
                        get_enhanced_database_structure(db_selected, rich_ok, reduced_ok),
                        llm_ok, llm_output)
            IN IF r.ok
               THEN th' = [th EXCEPT ![t].sql_query = r.sql,
                              ![t].events = Emit(t, <<"status:parsing", "sql",
                                                      "status:executing">>),
                              ![t].pc = "st_exec"]
               ELSE th' = [th EXCEPT ![t] =
                              [StreamFail(t, "synthesis", <<"status:parsing">>)
                                  EXCEPT !.err = r.err]]
    /\ UNCHANGED <<active_connections, conversation_histories, connection_lock,
                   conns, has_last_cleanup, last_cleanup, now, sweep_starts>>

(* line 582-599: execute, fetch all rows, the results event.  After a      *)
(* statement without a result set, fetchall() raises or returns no rows,   *)
(* depending on the driver's version.  No commit and no rollback follows.  *)
StreamExecute(t) ==
    /\ th[t].pc = "st_exec"
    /\ \E out \in ExecOutcomes(th[t].connection, th[t].sql_query),
          fetch_raises \in BOOLEAN :
        /\ conns' = Executed(conns, th[t].connection, out)
        /\ th' = [th EXCEPT ![t] =
              LET me == [th[t] EXCEPT !.executed = th[t].sql_query,
                                      !.outcome = out]
              IN CASE \/ out \in {"driver_error", "other_error"}
                      \/ out = "no_result" /\ fetch_raises ->
                        [StreamFail(t, "execution", <<>>) EXCEPT
                            !.executed = th[t].sql_query, !.outcome = out]
                   [] json_dumps(out) = "TypeError" ->
                        [StreamFail(t, "delivery", <<"status:processing">>) EXCEPT
                            !.executed = th[t].sql_query, !.outcome = out,
                            !.results = out]
                   [] OTHER ->
                        [me EXCEPT !.results = IF out = "no_result" THEN "no_rows"
                                                ELSE out,
                                   !.delivered = json_dumps(out),
                                   !.events = Emit(t, <<"status:processing", "results">>),
                                   !.pc = "st_hist"]]
    /\ UNCHANGED <<active_connections, conversation_histories, connection_lock,
                   has_last_cleanup, last_cleanup, now, sweep_starts>>

(* line 601-608: the turn is appended, the explanation is announced.       *)
StreamHistory(t) ==
    /\ th[t].pc = "st_hist"
    /\ conversation_histories' =
          add_to_conversation_history(conversation_histories, get_session_id(t),
                                      th[t].question, th[t].sql_query)
    /\ th' = [th EXCEPT ![t].events = Emit(t, <<"status:explaining">>),
                        ![t].appended = @ + 1, ![t].pc = "st_explain"]
    /\ UNCHANGED <<active_connections, connection_lock, conns, has_last_cleanup,
                   last_cleanup, now, sweep_starts>>

ChunkCount(evs) == Cardinality({i \in 1..Len(evs) : evs[i] = "answer_chunk"})

(* stream_generate_answer, line 313-358, one step of the chunk loop at     *)
(* line 612-616: a non-empty delta, the end of the backend's stream, or a  *)
(* failure, which yields the fallback text as one more chunk.              *)
StreamExplain(t) ==
    /\ th[t].pc = "st_explain"
    /\ \/ /\ ChunkCount(th[t].events) < MaxChunks
          /\ th' = [th EXCEPT ![t].events = Emit(t, <<"answer_chunk">>)]
       \/ th' = [th EXCEPT ![t].explained = "ok", ![t].pc = "st_done"]
       \/ th' = [th EXCEPT ![t].events = Emit(t, <<"answer_chunk">>),
                           ![t].explained = "fallback", ![t].pc = "st_done"]
    /\ UNCHANGED <<active_connections, conversation_histories, connection_lock,
                   conns, has_last_cleanup, last_cleanup, now, sweep_starts>>

(* line 618-637: status(done), done, then cursor.close(), which can raise  *)
(* inside the try block.                                                   *)
StreamDone(t) ==
    /\ th[t].pc = "st_done"
    /\ \/ th' = [th EXCEPT ![t].events = Emit(t, <<"status:done", "done">>),
                           ![t].pc = "done"]
       \/ th' = [th EXCEPT ![t] = StreamFail(t, "cleanup", <<"status:done", "done">>)]
    /\ UNCHANGED <<active_connections, conversation_histories, connection_lock,
                   conns, has_last_cleanup, last_cleanup, now, sweep_starts>>

stream_query(t) ==
    \/ StreamPrepare(t) \/ StreamParse(t) \/ StreamExecute(t)
    \/ StreamHistory(t) \/ StreamExplain(t) \/ StreamDone(t)

(* ------------------------- natural_language_query ----------------------- *)
Respond(t, stage) ==
    [th[t] EXCEPT !.response = IF stage = "none" THEN "ok" ELSE "error",
                  !.fault = stage, !.pc = "done"]

(* line 316-340: the connection, the session's history, generate_sql.      *)
NlGenerate(t) ==
    /\ th[t].pc = "nl_gen"
    /\ IF th[t].fault # "none"
       THEN /\ th' = [th EXCEPT ![t] = Respond(t, "acquire")]
            /\ UNCHANGED conversation_histories
       ELSE /\ conversation_histories' =
                  get_conversation_history(conversation_histories, get_session_id(t))
            /\ \E client_ok, db_selected, rich_ok, reduced_ok, llm_ok \in BOOLEAN,
                  llm_output \in BackendTexts :
                LET r == generate_sql(is_connected(th[t].connection), client_ok,
                            get_enhanced_database_structure(db_selected, rich_ok, reduced_ok),
                            llm_ok, llm_output)
                IN IF r.ok
                   THEN th' = [th EXCEPT ![t].sql_query = r.sql, ![t].pc = "nl_exec"]
                   ELSE th' = [th EXCEPT ![t] =
                                  [Respond(t, "synthesis") EXCEPT !.err = r.err]]
    /\ UNCHANGED <<active_connections, connection_lock, conns, has_last_cleanup,
                   last_cleanup, now, sweep_starts>>

(* line 342-365: execute; fetch the rows, or commit when there is no       *)
(* result set; roll back on a driver error; then append the turn.          *)
NlExecute(t) ==
    /\ th[t].pc = "nl_exec"
    /\ \E out \in ExecOutcomes(th[t].connection, th[t].sql_query) :
        LET c == th[t].connection
            me == [th[t] EXCEPT !.executed = th[t].sql_query, !.outcome = out]
        IN CASE out = "driver_error" ->
                  /\ conns' = Committed(conns, c)
                  /\ th' = [th EXCEPT ![t] =
                              [Respond(t, "execution") EXCEPT
                                  !.executed = me.executed, !.outcome = out,
                                  !.rolled_back = TRUE]]
                  /\ UNCHANGED conversation_histories
             [] out = "other_error" ->
                  /\ th' = [th EXCEPT ![t] =
                              [Respond(t, "execution") EXCEPT
                                  !.executed = me.executed, !.outcome = out]]
                  /\ UNCHANGED <<conns, conversation_histories>>
             [] OTHER ->
                  /\ conns' = Committed(Executed(conns, c, out), c)
                  /\ conversation_histories' =
                        add_to_conversation_history(conversation_histories,
                            get_session_id(t), th[t].question, th[t].sql_query)
                  /\ th' = [th EXCEPT ![t] =
                              [me EXCEPT !.results = out, !.appended = @ + 1,
                                         !.pc = "nl_answer"]]
    /\ UNCHANGED <<active_connections, connection_lock, has_last_cleanup,
                   last_cleanup, now, sweep_starts>>

(* line 367-385: generate_answer returns the explanation or its fallback   *)
(* text; the response carries sql, results and answer.                     *)
NlAnswer(t) ==
    /\ th[t].pc = "nl_answer"
    /\ \E a \in {"ok", "fallback"} :
        th' = [th EXCEPT ![t] = [Respond(t, "none") EXCEPT
                                    !.explained = a,
                                    !.delivered = jsonify(th[t].results)]]
    /\ UNCHANGED <<active_connections, conversation_histories, connection_lock,
                   conns, has_last_cleanup, last_cleanup, now, sweep_starts>>

natural_language_query(t) == NlGenerate(t) \/ NlExecute(t) \/ NlAnswer(t)

(* ---------------- the pool under concurrent requests ------------------- *)
StreamThread == "t1"
SyncThread == "t2"
OtherThread == "t2"
PoolKinds == {"acquire", "close"}
PoolConfigs == {cfgA}

Next ==
    \/ \E t \in Threads :
        \/ StartRequest(t, PoolKinds, PoolConfigs, {TRUE}, Sessions)
        \/ cleanup_old_sessions(t)
        \/ get_or_create_connection(t)
        \/ close_connections(t)
        \/ Finish(t)
    \/ Tick
    \/ ConnDrop

Spec == Init /\ [][Next]_vars

(* --------------- one worker: the pool under every config --------------- *)
SeqKinds == {"acquire", "close"}

NextSeq ==
    \/ StartRequest(MainThread, SeqKinds, AllConfigs, BOOLEAN, Sessions)
    \/ cleanup_old_sessions(MainThread)
    \/ get_or_create_connection(MainThread)
    \/ close_connections(MainThread)
    \/ Finish(MainThread)
    \/ Tick
    \/ ConnDrop

SpecSeq == Init /\ [][NextSeq]_vars

(* ------------- one worker: the query pipeline of one session ----------- *)
StreamKinds == {"stream", "nl", "clear"}
StreamConfigs == {cfgA}
StreamSessions == {"s1"}
TotalTurns ==
    LET RECURSIVE Sum(_)
        Sum(S) == IF S = {} THEN 0
                  ELSE LET x == CHOOSE y \in S : TRUE
                       IN Len(conversation_histories[x]) + Sum(S \ {x})
    IN Sum(DOMAIN conversation_histories)

NextStream ==
    \/ StartRequest(MainThread,
                    IF TotalTurns < MaxTurns THEN StreamKinds ELSE {"clear"},
                    StreamConfigs, BOOLEAN, StreamSessions)
    \/ cleanup_old_sessions(MainThread)
    \/ get_or_create_connection(MainThread)
    \/ clear_history(MainThread)
    \/ stream_query(MainThread)
    \/ natural_language_query(MainThread)
    \/ Finish(MainThread)
    \/ Tick
    \/ ConnDrop

SpecStream == Init /\ [][NextStream]_vars

(* ------------------ one session's history, turn by turn ---------------- *)
(* The client numbers its questions: each one is the successor of the      *)
(* latest turn the history holds, and the first after a clear is 1.        *)
HistoryQueries == {clean_sql_query(rawSelect), clean_sql_query(rawUpdateWhere)}
NextQuestion(h, session_id) ==
    IF session_id \in DOMAIN h /\ h[session_id] # <<>>
    THEN h[session_id][Len(h[session_id])][1] + 1
    ELSE 1

HistoryLookup ==
    /\ \E sid \in StreamSessions :
          conversation_histories' = get_conversation_history(conversation_histories, sid)
    /\ UNCHANGED <<active_connections, connection_lock, conns, has_last_cleanup,
                   last_cleanup, now, th, sweep_starts>>

HistoryAppend ==
    /\ \E sid \in StreamSessions, sql \in HistoryQueries :
          /\ NextQuestion(conversation_histories, sid) <= MaxAppends
          /\ conversation_histories' =
                add_to_conversation_history(conversation_histories, sid,
                    NextQuestion(conversation_histories, sid), sql)
    /\ UNCHANGED <<active_connections, connection_lock, conns, has_last_cleanup,
                   last_cleanup, now, th, sweep_starts>>

HistoryClear ==
    /\ \E sid \in StreamSessions :
          conversation_histories' = ClearedHistory(conversation_histories, sid)
    /\ UNCHANGED <<active_connections, connection_lock, conns, has_last_cleanup,
                   last_cleanup, now, th, sweep_starts>>

NextHistory == HistoryLookup \/ HistoryAppend \/ HistoryClear

SpecHistory == Init /\ [][NextHistory]_vars

(* ------------------------ generate_sql on its own ----------------------- *)
(* A caller runs generate_sql on a connection; the request records what    *)
(* the connection, the client, the inspector and the backend did.          *)
SynthCall(t) ==
    /\ th[t].pc = "idle"
    /\ \E connected, client_ok, db_selected, rich_ok, reduced_ok, llm_ok \in BOOLEAN,
          llm_output \in BackendTexts :
        LET structure == get_enhanced_database_structure(db_selected, rich_ok, reduced_ok)
            r == generate_sql(connected, client_ok, structure, llm_ok, llm_output)
        IN th' = [th EXCEPT ![t] =
                    [IdleThread EXCEPT
                        !.kind = "synth", !.pc = "done",
                        !.inputs = [connected |-> connected, client_ok |-> client_ok,
                                    db_selected |-> db_selected, rich_ok |-> rich_ok,
                                    reduced_ok |-> reduced_ok, llm_ok |-> llm_ok],
                        !.llm_output = llm_output,
                        !.structure = IF SchemaQueried(connected, client_ok)
                                      THEN structure ELSE "none",
                        !.llm_called = BackendInvoked(connected, client_ok, structure),
                        !.sql_query = r.sql, !.err = r.err]]
    /\ UNCHANGED <<active_connections, conversation_histories, connection_lock,
                   conns, has_last_cleanup, last_cleanup, now, sweep_starts>>

NextSynth == SynthCall(MainThread) \/ Finish(MainThread)

SpecSynth == Init /\ [][NextSynth]_vars

(* -------------- the sanitizer and the filter on backend texts ---------- *)
SeqsUpTo(S, n) == UNION {[1..k -> S] : k \in 0..n}
(* The sentinel followed by any suffix.                                    *)
SuffixTokens == {" ", "\n", "--", ";", Fence, "x", "DROP"}
SentinelTexts == {<<"ERROR:">> \o x : x \in SeqsUpTo(SuffixTokens, MaxSuffix)}
(* A body between an opening fence, with or without a tag, and a closing   *)
(* fence.                                                                  *)
FenceTags == {<<>>, <<"sql">>, <<"SQL">>}
BodyTokens == {"select", "x", " ", "\n", "--", ";"}
Fenced(tag, body) == <<Fence>> \o tag \o <<"\n">> \o body \o <<"\n", Fence>>
(* Statements: an optional leading word, the head of a statement and a     *)
(* tail of words; the words are separated by one blank or one line break   *)
(* and stand in lower or in upper case.                                    *)
StatementLeads == {<<>>, <<"x">>}
StatementHeads ==
    {<<>>, <<"drop", "database">>, <<"drop", "table">>, <<"truncate", "table">>,
     <<"delete", "from">>, <<"alter", "table">>, <<"update">>, <<"delete">>,
     <<"drop">>}
TailWords == {"x", "where", "drop", "from", "update"}
StatementWords ==
    {lead \o head \o tail :
        lead \in StatementLeads, head \in StatementHeads,
        tail \in SeqsUpTo(TailWords, MaxTail)}
Upper(tok) ==
    CASE tok = "delete" -> "DELETE"
      [] tok = "from" -> "FROM"
      [] tok = "where" -> "WHERE"
      [] tok = "update" -> "UPDATE"
      [] tok = "drop" -> "DROP"
      [] tok = "table" -> "TABLE"
      [] tok = "database" -> "DATABASE"
      [] tok = "truncate" -> "TRUNCATE"
      [] tok = "alter" -> "ALTER"
      [] tok = "x" -> "X"
      [] OTHER -> tok
RECURSIVE Render(_, _, _)
Render(words, sep, upper) ==
    IF words = <<>> THEN <<>>
    ELSE LET w == IF upper THEN Upper(Head(words)) ELSE Head(words)
         IN IF Len(words) = 1 THEN <<w>>
            ELSE <<w, sep>> \o Render(Tail(words), sep, upper)
Renderings == {<<" ", FALSE>>, <<" ", TRUE>>, <<"\n", FALSE>>}

(* generate_sql from line 178 on: the backend's text is sanitized and      *)
(* checked; the request records the text, the sanitized text and the       *)
(* outcome.                                                                *)
Sanitized(t, family, raw, parts) ==
    /\ th' = [th EXCEPT ![t] =
                [IdleThread EXCEPT
                    !.kind = family, !.pc = "done", !.inputs = parts,
                    !.llm_output = raw, !.llm_called = TRUE,
                    !.sql_query = clean_sql_query(raw),
                    !.err = CheckGenerated(raw).err]]
    /\ UNCHANGED <<active_connections, conversation_histories, connection_lock,
                   conns, has_last_cleanup, last_cleanup, now, sweep_starts>>

SanitizeSentinel(t) ==
    /\ th[t].pc = "idle"
    /\ \E raw \in SentinelTexts : Sanitized(t, "sentinel", raw, <<>>)
SanitizeFenced(t) ==
    /\ th[t].pc = "idle"
    /\ \E tag \in FenceTags, body \in SeqsUpTo(BodyTokens, MaxBody) :
          Sanitized(t, "fenced", Fenced(tag, body), <<tag, body>>)
SanitizeStatement(t) ==
    /\ th[t].pc = "idle"
    /\ \E words \in StatementWords, r \in Renderings :
          Sanitized(t, "statement", Render(words, r[1], r[2]), words)

NextText ==
    \/ SanitizeSentinel(MainThread)
    \/ SanitizeFenced(MainThread)
    \/ SanitizeStatement(MainThread)
    \/ Finish(MainThread)

SpecText == Init /\ [][NextText]_vars

(* ------------- acquire under concurrent callers, nothing else ---------- *)
(* A caller enters get_or_create_connection.                               *)
AcquireCall(t) ==
    /\ th[t].pc = "idle"
    /\ \E sid \in Sessions, cfg \in AllConfigs :
        th' = [th EXCEPT ![t] = [IdleThread EXCEPT !.kind = "acquire", !.sid = sid,
                                    !.cookie = TRUE, !.config = cfg, !.ret = "done",
                                    !.pc = "acq_check"]]
    /\ UNCHANGED <<active_connections, conversation_histories, connection_lock,
                   conns, has_last_cleanup, last_cleanup, now, sweep_starts>>

NextAcquire ==
    \/ \E t \in Threads :
        \/ AcquireCall(t)
        \/ get_or_create_connection(t)
        \/ Finish(t)
    \/ ConnDrop

SpecAcquire == Init /\ [][NextAcquire]_vars

(* ============================== claims ================================= *)
Acts(t) == th'[t] # th[t]
Returned(t) == th[t].pc = "done" /\ th[t].fault = "none"
ConnsOf(sid, key) == {c \in DOMAIN conns : conns[c].sid = sid /\ conns[c].key = key}
AllConnected == \A c \in DOMAIN conns : conns[c].connected

(* The events of a stream up to the explanation, in the success order.     *)
SuccessOrder ==
    <<"status:preparing", "status:parsing", "sql", "status:executing",
      "status:processing", "results", "status:explaining">>
Chunks(n) == [i \in 1..n |-> "answer_chunk"]
Count(evs, e) == Cardinality({i \in 1..Len(evs) : evs[i] = e})
Front(evs) == SubSeq(evs, 1, Len(evs) - 1)
(* evs is a prefix of some success sequence.                               *)
IsSuccessPrefix(evs) ==
    LET n == Len(evs)
        k == IF n < Len(SuccessOrder) THEN n ELSE Len(SuccessOrder)
    IN /\ SubSeq(evs, 1, k) = SubSeq(SuccessOrder, 1, k)
       /\ n > k =>
            \E m \in 0..(n - k) :
                /\ SubSeq(evs, k + 1, k + m) = Chunks(m)
                /\ SubSeq(evs, k + m + 1, n) \in
                      {<<>>, <<"status:done">>, <<"status:done", "done">>}
(* The stream of t has ended and its four stages and the explanation went  *)
(* through.                                                                *)
StagesSucceeded(t) ==
    /\ th[t].kind = "stream" /\ th[t].pc = "done"
    /\ th[t].results # "none" /\ th[t].explained = "ok"

(* C1: a stream whose acquisition, synthesis, execution and explanation    *)
(* succeeded has emitted exactly the success order with one or more        *)
(* answer_chunk events, then status(done), done, and nothing else.         *)
C1_SuccessSequence ==
    \A t \in Threads :
        StagesSucceeded(t) =>
            \E n \in 1..Len(th[t].events) :
                th[t].events = SuccessOrder \o Chunks(n) \o <<"status:done", "done">>

(* How many events of the success order precede a failure of each stage.   *)
EmittedBefore(stage) ==
    CASE stage = "acquire" -> 1
      [] stage = "synthesis" -> 2
      [] stage = "execution" -> 4
      [] stage = "delivery" -> 5
HardStages == {"acquire", "synthesis", "execution", "delivery"}
ErrorIsLast ==
    [][\A t \in Threads :
          Count(th[t].events, "error") > 0 =>
              th'[t].events = th[t].events \/ th'[t].pc = "idle"]_vars

(* C2 as stated: a stream in which acquisition, synthesis, execution,      *)
(* result delivery or the explanation failed has emitted a prefix of the   *)
(* success order, then exactly one error event and nothing after it, and   *)
(* the fault is raised again.                                              *)
C2_AnyFailureEmitsError ==
    /\ [](\A t \in Threads :
            (/\ th[t].kind = "stream" /\ th[t].pc = "done"
             /\ th[t].fault \in HardStages \/ th[t].explained = "fallback")
            => /\ th[t].events # <<>>
               /\ th[t].events[Len(th[t].events)] = "error"
               /\ Count(th[t].events, "error") = 1
               /\ IsSuccessPrefix(Front(th[t].events))
               /\ th[t].raised)
    /\ ErrorIsLast

(* C2, amended: a stream in which acquisition, synthesis, execution or     *)
(* result delivery failed has emitted the events of the success order      *)
(* that precede that stage's work, then exactly one error event and        *)
(* nothing after it, and the fault is raised again.                        *)
C2_HardFailureEmitsError ==
    /\ [](\A t \in Threads :
            (/\ th[t].kind = "stream" /\ th[t].pc = "done"
             /\ th[t].fault \in HardStages)
            => /\ th[t].events =
                    SubSeq(SuccessOrder, 1, EmittedBefore(th[t].fault)) \o <<"error">>
               /\ th[t].raised)
    /\ ErrorIsLast

(* A stream failed while delivering the rows.                              *)
C2_Witness ==
    \E t \in Threads :
        /\ th[t].kind = "stream" /\ th[t].pc = "done" /\ th[t].fault = "delivery"
        /\ th[t].executed # <<>> /\ th[t].raised

(* C3: in both modes a statement is executed only after generate_sql       *)
(* returned it, so it is the generated statement, does not start with the  *)
(* sentinel and passes the destructive-operation filter; after             *)
(* AmbiguousQuery or UnsafeOperation nothing is executed and the stream    *)
(* has emitted neither the sql event nor status(executing).                *)
C3_ExecutionGated ==
    \A t \in Threads :
        /\ th[t].executed # <<>> =>
              /\ th[t].executed = th[t].sql_query
              /\ Head(th[t].executed) # "ERROR:"
              /\ ~is_dangerous_sql(th[t].executed)
              /\ \E raw \in BackendTexts : clean_sql_query(raw) = th[t].executed
        /\ th[t].err \in {"AmbiguousQuery", "UnsafeOperation"} =>
              /\ th[t].executed = <<>>
              /\ th[t].sql_query = <<>>
              /\ Count(th[t].events, "sql") = 0
              /\ Count(th[t].events, "status:executing") = 0

(* A stream ended with UnsafeOperation.                                    *)
C3_Witness ==
    \E t \in Threads :
        /\ th[t].kind = "stream" /\ th[t].pc = "done"
        /\ th[t].err = "UnsafeOperation"
        /\ th[t].events = <<"status:preparing", "status:parsing", "error">>

(* C4: a history never holds more than 10 turns, and an append to a        *)
(* history of 10 turns drops exactly the oldest turn, keeps the other 9    *)
(* in order and puts the new turn last.                                    *)
C4_HistoryBounded ==
    /\ [](\A sid \in DOMAIN conversation_histories :
            Len(conversation_histories[sid]) <= HistoryLimit)
    /\ [][\A sid \in DOMAIN conversation_histories :
            LET old == conversation_histories[sid]
                new == conversation_histories'[sid]
            IN (/\ sid \in DOMAIN conversation_histories'
                /\ Len(old) = HistoryLimit
                /\ new # <<>>)
               => /\ Len(new) = HistoryLimit
                  /\ SubSeq(new, 1, HistoryLimit - 1) = Tail(old)
                  /\ new[HistoryLimit][1] =
                        NextQuestion(conversation_histories, sid)]_vars

(* Question 11 was appended to the full history of questions 1..10.        *)
C4_Witness ==
    /\ "s1" \in DOMAIN conversation_histories
    /\ Len(conversation_histories["s1"]) = HistoryLimit
    /\ conversation_histories["s1"][1][1] = 2
    /\ conversation_histories["s1"][HistoryLimit][1] = HistoryLimit + 1

(* C5: within a session, configs that agree in every field share one live  *)
(* pooled connection, and a returning acquire holds the instance that is   *)
(* pooled under its config.                                                *)
C5_SameConfigSameInstance ==
    /\ \A sid \in DOMAIN active_connections :
          \A k1, k2 \in DOMAIN active_connections[sid] :
              (/\ Fields(k1) = Fields(k2)
               /\ conns[active_connections[sid][k1]].connected
               /\ conns[active_connections[sid][k2]].connected)
              => active_connections[sid][k1] = active_connections[sid][k2]
    /\ \A t \in Threads :
          (Returned(t) /\ th[t].kind = "acquire") =>
              /\ th[t].sid \in DOMAIN active_connections
              /\ connection_key(th[t].config) \in DOMAIN active_connections[th[t].sid]
              /\ active_connections[th[t].sid][connection_key(th[t].config)]
                    = th[t].connection

(* C6: while no connection has been lost, concurrent acquire calls with    *)
(* the same session and key create exactly one connection, and every       *)
(* caller that has returned holds that instance, which is the pooled one.  *)
C6_AcquireIdempotent ==
    AllConnected =>
        /\ \A c1, c2 \in DOMAIN conns :
              (conns[c1].sid = conns[c2].sid /\ conns[c1].key = conns[c2].key) => c1 = c2
        /\ \A t \in Threads :
              (Returned(t) /\ th[t].kind = "acquire") =>
                  /\ ConnsOf(th[t].sid, connection_key(th[t].config)) = {th[t].connection}
                  /\ th[t].sid \in DOMAIN active_connections
                  /\ connection_key(th[t].config) \in DOMAIN active_connections[th[t].sid]
                  /\ active_connections[th[t].sid][connection_key(th[t].config)]
                        = th[t].connection

(* Two callers of one session, whose configs differ in the password only,  *)
(* have both returned the one connection.                                  *)
C6_Witness ==
    /\ AllConnected
    /\ \A t \in Threads : Returned(t) /\ th[t].sid = "s1"
    /\ th["t1"].config = cfgA /\ th["t2"].config = cfgA2
    /\ th["t1"].connection = th["t2"].connection
    /\ th["t1"].connection # None

(* C7: no request removes a pool entry or closes a pooled connection       *)
(* while another request is inside acquire, i.e. holds connection_lock.    *)
PooledConns == UNION {Values(active_connections[s]) : s \in DOMAIN active_connections}
C7_MutationsUnderLock ==
    [][\A t \in Threads :
          (/\ Acts(t)
           /\ \/ active_connections' # active_connections
              \/ \E c \in PooledConns : conns[c].connected /\ ~conns'[c].connected)
          => connection_lock \in {NoThread, t}]_vars

(* C8: a sweep does not reclaim the session whose token the sweeping       *)
(* request carries; a session it does reclaim has its connections closed   *)
(* and its pool entry and its history removed.                             *)
C8_SweepSparesActive ==
    /\ [](\A t \in Threads :
            th[t].pc = "bf_del" =>
                ~(th[t].cookie /\ th[t].cur = get_session_id(t)))
    /\ [][\A t \in Threads :
            (th[t].pc = "bf_del" /\ th'[t].pc = "bf_loop") =>
                /\ th[t].cur \notin DOMAIN active_connections'
                /\ th[t].cur \notin DOMAIN conversation_histories'
                /\ \A c \in Values(active_connections[th[t].cur]) :
                      ~conns'[c].connected]_vars

(* C9: a sweep never starts less than one interval after another sweep.    *)
C9_SweepsSpaced ==
    [][\A t \in Threads :
          (th[t].pc = "bf_set" /\ th'[t].pc = "bf_loop") =>
              \A s \in sweep_starts :
                  th[t].current_time - s >= CleanupInterval]_vars

PooledUnder(sid) ==
    IF sid \in DOMAIN active_connections THEN Values(active_connections[sid]) ELSE {}

(* C10: when release-session(s) completes, the pool holds no connection    *)
(* for s and no connection it removed from the pool is still connected.    *)
C10_ReleaseClosesAll ==
    [][\A t \in Threads :
          (th[t].pc = "cl_reset" /\ th'[t].pc = "done") =>
              /\ active_connections'[th[t].sid] = EmptyDict
              /\ \A c \in PooledUnder(th[t].sid) : ~conns'[c].connected]_vars

(* The request of t is a query request that has ended.                     *)
QueryEnded(t) == th[t].kind \in {"stream", "nl"} /\ th[t].pc = "done"
HistoryOf(h, sid) == IF sid \in DOMAIN h THEN h[sid] ELSE <<>>

(* C11: when a query request has ended after executing a statement that    *)
(* has no result set, the connection it used, while still connected, has   *)
(* no open transaction.                                                    *)
C11_NoOpenTransaction ==
    \A t \in Threads :
        (/\ QueryEnded(t)
         /\ th[t].executed # <<>> /\ ~HasResultSet(th[t].executed)
         /\ conns[th[t].connection].connected)
        => ~conns[th[t].connection].txn

(* C12: a query request changes its session's history only by appending    *)
(* the turn of the statement it executed successfully, and when it has     *)
(* ended it has appended one turn if its execution succeeded and none if   *)
(* it failed at acquisition, synthesis or execution.                       *)
C12_TurnAfterExecution ==
    /\ [](\A t \in Threads :
            QueryEnded(t) =>
                th[t].appended = IF th[t].results # "none" THEN 1 ELSE 0)
    /\ [][\A t \in Threads :
            LET old == HistoryOf(conversation_histories, th[t].sid)
                new == HistoryOf(conversation_histories', th[t].sid)
            IN (/\ th[t].kind \in {"stream", "nl"}
                /\ th[t].pc \notin {"bf_set", "bf_loop", "bf_del"}
                /\ Acts(t) /\ new # old)
               => /\ th'[t].results # "none"
                  /\ new = Append(old, <<th[t].question, th'[t].executed>>)]_vars

(* C13: a query request whose explanation failed has not failed: the       *)
(* synchronous response carries the query and the results, and the stream  *)
(* has no error event and ends with status(done), done.                    *)
C13_ExplanationNeverFails ==
    \A t \in Threads :
        (QueryEnded(t) /\ th[t].explained = "fallback") =>
            IF th[t].kind = "nl"
            THEN /\ th[t].response = "ok"
                 /\ th[t].sql_query # <<>> /\ th[t].results # "none"
            ELSE /\ Count(th[t].events, "error") = 0
                 /\ Len(th[t].events) >= 2
                 /\ SubSeq(th[t].events, Len(th[t].events) - 1, Len(th[t].events))
                        = <<"status:done", "done">>

(* C17: a query request that failed at execution has attempted a rollback  *)
(* on its connection.                                                      *)
C17_RollbackOnFailure ==
    \A t \in Threads :
        (QueryEnded(t) /\ th[t].fault = "execution") => th[t].rolled_back

(* generate_sql has returned or raised in the request of t.                *)
SynthEnded(t) == th[t].kind = "synth" /\ th[t].pc = "done"

(* C18: when the connection has no database selected, generate_sql fails   *)
(* with NoDatabaseSelected, does not call the backend and returns no       *)
(* query.                                                                  *)
C18_NoDatabaseFails ==
    \A t \in Threads :
        (SynthEnded(t) /\ th[t].structure = "nodb_msg") =>
            /\ th[t].err = "NoDatabaseSelected"
            /\ ~th[t].llm_called
            /\ th[t].sql_query = <<>>

(* C19: when the rich snapshot fails and the reduced dump does not, the    *)
(* inspector returns the reduced dump; generate_sql fails with             *)
(* SchemaUnavailable exactly when both fail, and then makes no backend     *)
(* call.                                                                   *)
C19_ReducedDumpFallback ==
    \A t \in Threads :
        (SynthEnded(t) /\ th[t].structure # "none") =>
            /\ (~th[t].inputs.rich_ok /\ th[t].inputs.reduced_ok)
                  => th[t].structure \in {"reduced", "nodb_msg"}
            /\ (~th[t].inputs.rich_ok /\ th[t].inputs.reduced_ok
                    /\ th[t].inputs.db_selected)
                  => th[t].structure = "reduced"
            /\ th[t].err = "SchemaUnavailable"
                  <=> (~th[t].inputs.rich_ok /\ ~th[t].inputs.reduced_ok)
            /\ th[t].err = "SchemaUnavailable" => ~th[t].llm_called

(* The rich snapshot failed, the reduced dump was used and a query came    *)
(* back.                                                                   *)
C19_Witness ==
    \E t \in Threads :
        /\ SynthEnded(t) /\ ~th[t].inputs.rich_ok /\ th[t].structure = "reduced"
        /\ th[t].llm_called /\ th[t].err = "none" /\ th[t].sql_query # <<>>

(* The failure of the three checks on the sanitized text, in their order.  *)
TextFailure(raw) ==
    LET q == clean_sql_query(raw)
    IN IF q # <<>> /\ Head(q) = "ERROR:" THEN "AmbiguousQuery"
       ELSE IF q = <<>> THEN "EmptyGeneration"
       ELSE IF is_dangerous_sql(q) THEN "UnsafeOperation"
       ELSE "none"
SchemaFails(i) == ~i.rich_ok /\ ~i.reduced_ok
(* What the three particular cases of C20 say.                             *)
OrderCases(t) ==
    /\ ~th[t].inputs.connected =>
          /\ th[t].err = "ConnectionRequired"
          /\ th[t].structure = "none" /\ ~th[t].llm_called
    /\ (/\ th[t].llm_called /\ th[t].inputs.llm_ok
        /\ clean_sql_query(th[t].llm_output) # <<>>
        /\ Head(clean_sql_query(th[t].llm_output)) = "ERROR:")
          => th[t].err = "AmbiguousQuery"
    /\ (/\ th[t].llm_called /\ th[t].inputs.llm_ok
        /\ clean_sql_query(th[t].llm_output) = <<>>)
          => th[t].err = "EmptyGeneration"

(* C20 as stated: generate_sql reports the first failure in the order      *)
(* connection check, schema, backend call, sentinel, empty text,           *)
(* destructive filter.                                                     *)
C20_ClaimedOrder ==
    \A t \in Threads :
        SynthEnded(t) =>
            LET i == th[t].inputs
            IN /\ th[t].err =
                    IF ~i.connected THEN "ConnectionRequired"
                    ELSE IF SchemaFails(i) THEN "SchemaUnavailable"
                    ELSE IF ~i.client_ok \/ ~i.llm_ok THEN "GenerationBackendError"
                    ELSE TextFailure(th[t].llm_output)
               /\ OrderCases(t)

(* C20, amended: generate_sql reports the first failure in the order       *)
(* connection check, backend client, schema, backend call, sentinel,       *)
(* empty text, destructive filter.                                         *)
C20_CodeOrder ==
    \A t \in Threads :
        SynthEnded(t) =>
            LET i == th[t].inputs
            IN /\ th[t].err =
                    IF ~i.connected THEN "ConnectionRequired"
                    ELSE IF ~i.client_ok THEN "GenerationBackendError"
                    ELSE IF SchemaFails(i) THEN "SchemaUnavailable"
                    ELSE IF ~i.llm_ok THEN "GenerationBackendError"
                    ELSE TextFailure(th[t].llm_output)
               /\ (i.connected /\ ~i.client_ok) =>
                      th[t].structure = "none" /\ ~th[t].llm_called
               /\ OrderCases(t)

(* The backend answered with the sentinel followed by a destructive        *)
(* statement, and generate_sql failed with AmbiguousQuery.                 *)
C20_Witness ==
    \E t \in Threads :
        /\ SynthEnded(t) /\ th[t].llm_output = rawSentinelDrop
        /\ is_dangerous_sql(Tail(clean_sql_query(rawSentinelDrop)))
        /\ th[t].llm_called /\ th[t].err = "AmbiguousQuery"

(* The sanitizer and the checks have run on a text of the family.          *)
TextEnded(t, family) == th[t].kind = family /\ th[t].pc = "done"
Tokens(q) == {q[i] : i \in 1..Len(q)}

(* C14: a backend text that is the sentinel followed by any suffix is      *)
(* sanitized to a text that starts with the sentinel, and generate_sql     *)
(* fails with AmbiguousQuery and returns no query.                         *)
C14_SentinelAlwaysAmbiguous ==
    \A t \in Threads :
        TextEnded(t, "sentinel") =>
            /\ th[t].sql_query # <<>> /\ Head(th[t].sql_query) = "ERROR:"
            /\ th[t].err = "AmbiguousQuery"
            /\ ~CheckGenerated(th[t].llm_output).ok
            /\ CheckGenerated(th[t].llm_output).sql = <<>>

(* The sentinel directly followed by a comment marker and a line break.    *)
C14_Witness ==
    \E t \in Threads :
        /\ TextEnded(t, "sentinel")
        /\ th[t].llm_output = <<"ERROR:", "--", "\n", "DROP">>
        /\ th[t].err = "AmbiguousQuery"

(* What C15 calls destructive, on the words of a statement.                *)
Follows(w, i, a) == \E k \in (i + 1)..Len(w) : w[k] = a
Adjacent(w, i, a, b) == i < Len(w) /\ w[i] = a /\ w[i + 1] = b
Destructive(w) ==
    \E i \in 1..Len(w) :
        \/ Adjacent(w, i, "drop", "database")
        \/ Adjacent(w, i, "drop", "table")
        \/ Adjacent(w, i, "truncate", "table")
        \/ Adjacent(w, i, "alter", "table") /\ Follows(w, i + 1, "drop")
        \/ Adjacent(w, i, "delete", "from") /\ ~Follows(w, i + 1, "where")
        \/ w[i] = "update" /\ ~Follows(w, i, "where")

(* C15: the filter rejects the sanitized statement exactly when its words  *)
(* hold a destructive pattern, whatever their case, so a DELETE or UPDATE  *)
(* followed by a WHERE passes unless another pattern is present.           *)
C15_FilterMatchesPatterns ==
    \A t \in Threads :
        TextEnded(t, "statement") =>
            /\ is_dangerous_sql(th[t].sql_query) <=> Destructive(th[t].inputs)
            /\ th[t].err = "UnsafeOperation" <=> Destructive(th[t].inputs)

(* DELETE FROM X WHERE in upper case passed, though DELETE FROM X alone    *)
(* is rejected.                                                            *)
C15_Witness ==
    \E t \in Threads :
        /\ TextEnded(t, "statement")
        /\ th[t].llm_output = <<"DELETE", " ", "FROM", " ", "X", " ", "WHERE">>
        /\ th[t].err = "none"
        /\ is_dangerous_sql(<<"DELETE", " ", "FROM", " ", "X">>)

HasCommentLine(body) ==
    LET lines == SplitLines(body, <<>>)
    IN \E i \in 1..Len(lines) :
          Strip(lines[i]) # <<>> /\ Head(Strip(lines[i])) = "--"

(* C16: a text wrapped in fences, tagged or not, with a comment line in    *)
(* it is sanitized to a text without a fence, without a comment and        *)
(* without blanks at its ends.                                             *)
C16_NoFenceNoComment ==
    \A t \in Threads :
        (TextEnded(t, "fenced") /\ HasCommentLine(th[t].inputs[2])) =>
            /\ Fence \notin Tokens(th[t].sql_query)
            /\ "--" \notin Tokens(th[t].sql_query)
            /\ th[t].sql_query = Strip(th[t].sql_query)

(* C21: a query request that executed a statement whose rows hold date or  *)
(* decimal values does not fail at the delivery of the results, and the    *)
(* rows it delivers are normalized: dates as ISO-8601 text, decimals as    *)
(* floating point.                                                         *)
C21_RowsNormalized ==
    \A t \in Threads :
        (QueryEnded(t) /\ th[t].results = "rows_typed")
            => /\ th[t].fault # "delivery"
               /\ th[t].delivered = "iso_float"

(* ----------- the two query modes side by side, from a fresh state ------- *)
(* One client streams its question in session s1; when that request has    *)
(* ended, another client asks the same question synchronously in session   *)
(* s2.  Both sessions start without history and without a pooled           *)
(* connection, so neither request finds a pool entry to probe, and only    *)
(* the first request finds the sweep due, over a pool that is still empty. *)
NextModes ==
    \/ StartRequest(StreamThread, {"stream"}, StreamConfigs, {TRUE}, {"s1"})
    \/ /\ th[StreamThread].pc = "done"
       /\ StartRequest(SyncThread, {"nl"}, StreamConfigs, {TRUE}, {"s2"})
    \/ SweepSet(StreamThread) \/ SweepLoop(StreamThread)
    \/ \E t \in {StreamThread, SyncThread} :
          AcqCheck(t) \/ AcqCreate(t) \/ AcqStore(t)
    \/ stream_query(StreamThread)
    \/ natural_language_query(SyncThread)

SpecModes == Init /\ [][NextModes]_vars

TxnOpen(t) == th[t].connection # None /\ conns[th[t].connection].txn

(* C22: when a streaming request and a synchronous request started from    *)
(* the same session state, executed the same synthesized query and got the *)
(* same answer from the database, both succeeded or both failed, their     *)
(* sessions hold the same history and their connections are in the same    *)
(* transaction state.                                                      *)
C22_ModesAgree ==
    (/\ th[StreamThread].pc = "done" /\ th[SyncThread].pc = "done"
     /\ th[StreamThread].executed # <<>>
     /\ th[StreamThread].executed = th[SyncThread].executed
     /\ th[StreamThread].outcome = th[SyncThread].outcome)
        => /\ (th[StreamThread].fault = "none") <=> (th[SyncThread].fault = "none")
           /\ HistoryOf(conversation_histories, "s1")
                 = HistoryOf(conversation_histories, "s2")
           /\ TxnOpen(StreamThread) <=> TxnOpen(SyncThread)

(* ---------------- streaming requests under fair scheduling -------------- *)
(* One worker serves streaming requests of one session.  The worker keeps  *)
(* running, so every step of the handler that waits for nothing but the    *)
(* worker itself is taken eventually; the database answers; generate_sql   *)
(* passes timeout=45 to the backend call (llm_interaction.py line 169), so *)
(* StreamParse returns.  The call of stream_generate_answer passes no      *)
(* timeout and its client is built without one (line 62, 339-344), and the *)
(* loop at line 346-350 skips empty deltas without a deadline: the next    *)
(* step of StreamExplain comes only when the backend sends something, so   *)
(* no fairness is assumed for it.                                          *)
NextLive ==
    \/ StartRequest(MainThread,
                    IF TotalTurns < MaxTurns THEN {"stream"} ELSE {},
                    StreamConfigs, BOOLEAN, StreamSessions)
    \/ cleanup_old_sessions(MainThread)
    \/ get_or_create_connection(MainThread)
    \/ stream_query(MainThread)
    \/ Finish(MainThread)
    \/ Tick
    \/ ConnDrop

FairLive ==
    /\ WF_vars(cleanup_old_sessions(MainThread))
    /\ WF_vars(get_or_create_connection(MainThread))
    /\ WF_vars(StreamPrepare(MainThread))
    /\ WF_vars(StreamParse(MainThread))
    /\ WF_vars(StreamExecute(MainThread))
    /\ WF_vars(StreamHistory(MainThread))
    /\ WF_vars(StreamDone(MainThread))

SpecLive == Init /\ [][NextLive]_vars /\ FairLive

(* C23: every streaming request that has started eventually emits the      *)
(* done event or an error event.                                           *)
C23_StreamTerminates ==
    \A t \in Threads :
        (th[t].kind = "stream" /\ th[t].pc = "st_prep")
            ~> (Count(th[t].events, "done") > 0 \/ Count(th[t].events, "error") > 0)

(* ------------- one worker: two sessions, histories and pool ------------ *)
IsolationKinds == {"close", "clear", "nl"}

NextIsolation ==
    \/ StartRequest(MainThread,
                    IF TotalTurns < MaxTurns THEN IsolationKinds
                    ELSE IsolationKinds \ {"nl"},
                    StreamConfigs, {TRUE}, Sessions)
    \/ cleanup_old_sessions(MainThread)
    \/ get_or_create_connection(MainThread)
    \/ close_connections(MainThread)
    \/ clear_history(MainThread)
    \/ natural_language_query(MainThread)
    \/ Finish(MainThread)
    \/ Tick
    \/ ConnDrop

SpecIsolation == Init /\ [][NextIsolation]_vars

(* The thread is inside its handler: past before_request, not yet done.    *)
InHandler(t) == th[t].pc \notin {"idle", "bf_set", "bf_loop", "bf_del", "done", "failed"}
PoolOf(ac, sid) == IF sid \in DOMAIN ac THEN ac[sid] ELSE EmptyDict
SessionUntouched(s) ==
    /\ HistoryOf(conversation_histories', s) = HistoryOf(conversation_histories, s)
    /\ (s \in DOMAIN conversation_histories') = (s \in DOMAIN conversation_histories)
    /\ PoolOf(active_connections', s) = PoolOf(active_connections, s)
    /\ (s \in DOMAIN active_connections') = (s \in DOMAIN active_connections)
    /\ \A c \in DOMAIN conns : conns[c].sid = s => conns'[c] = conns[c]
NoSharedInstance ==
    \A s1, s2 \in DOMAIN active_connections :
        s1 # s2 => Values(active_connections[s1]) \cap Values(active_connections[s2]) = {}

(* C24: a step of a handler that runs for session A (appending to or       *)
(* clearing its history, acquiring or releasing its connections) leaves    *)
(* the history, the pool entry and the pooled connections of every other   *)
(* session unchanged, and no connection is pooled under two sessions.      *)
C24_SessionIsolation ==
    /\ []NoSharedInstance
    /\ [][\A t \in Threads :
            (InHandler(t) /\ Acts(t))
                => \A s \in Sessions \ {th[t].sid} : SessionUntouched(s)]_vars

(* A request of s1 has cleared its history or released its connections     *)
(* while s2 holds a turn and a live pooled connection.                     *)
C24_Witness ==
    \E t \in Threads :
        /\ th[t].pc = "done" /\ th[t].sid = "s1"
        /\ th[t].kind \in {"clear", "close"}
        /\ Len(HistoryOf(conversation_histories, "s2")) > 0
        /\ \E k \in DOMAIN PoolOf(active_connections, "s2") :
              is_connected(active_connections["s2"][k])

(* -------- a streaming request next to another session's request -------- *)
(* One worker streams for session s1 while a second worker serves          *)
(* requests of session s2 that acquire a connection.                       *)
NextBlocked ==
    \/ StartRequest(StreamThread,
                    IF TotalTurns < MaxTurns THEN {"stream"} ELSE {},
                    StreamConfigs, {TRUE}, {"s1"})
    \/ StartRequest(OtherThread, {"acquire"}, StreamConfigs, {TRUE}, {"s2"})
    \/ \E t \in Threads :
        \/ cleanup_old_sessions(t)
        \/ get_or_create_connection(t)
        \/ Finish(t)
    \/ stream_query(StreamThread)

SpecBlocked == Init /\ [][NextBlocked]_vars

(* The streaming request waits for the generation backend: in generate_sql *)
(* or between two chunks of the explanation.                               *)
Suspended(t) == th[t].kind = "stream" /\ th[t].pc \in {"st_parse", "st_explain"}

(* C25: a streaming request that waits for the generation backend does not *)
(* hold the pool lock, and a request of another session that is about to   *)
(* take the lock can take it.                                              *)
C25_SuspendedHoldsNoLock ==
    \A t \in Threads :
        Suspended(t)
            => /\ connection_lock # t
               /\ \A u \in Threads \ {t} :
                     (th[u].pc = "acq_check" /\ th[u].sid # th[t].sid)
                         => ENABLED AcqCheck(u)

(* The stream of s1 is between two chunks, and the request of s2 has       *)
(* returned a connection that was created after the stream's own, that is  *)
(* while the stream was in its pipeline.                                   *)
C25_Witness ==
    /\ th[StreamThread].pc = "st_explain"
    /\ ChunkCount(th[StreamThread].events) > 0
    /\ Returned(OtherThread) /\ th[OtherThread].kind = "acquire"
    /\ th[OtherThread].sid # th[StreamThread].sid
    /\ th[OtherThread].connection > th[StreamThread].connection
    /\ is_connected(th[OtherThread].connection)

(* ----------------------- analyze_database_schema ------------------------ *)
(* db/utils.py line 266-288.  A snapshot holds its tables and one          *)
(* relationship per FOREIGN KEY clause: the table and column that refer,   *)
(* and the table referred to (line 176-190).                               *)
MaxTables == 4
MaxEdges == 2
FkColumns == {"a", "b"}
Relationships(tables) ==
    [from_table : tables, from_column : FkColumns, to_table : tables]
RECURSIVE SetsUpTo(_, _)
SetsUpTo(S, k) ==
    IF k = 0 THEN {{}}
    ELSE LET P == SetsUpTo(S, k - 1) IN P \cup {p \cup {e} : p \in P, e \in S}

(* line 281-283: references_count[rel["to_table"]] += 1 for every rel      *)
references_count(relationships, table) ==
    Cardinality({rel \in relationships : rel.to_table = table})
(* line 286 *)
center_tables(relationships) ==
    {table \in {rel.to_table : rel \in relationships} :
        references_count(relationships, table) > 1}
(* line 278-288 *)
analyze_database_schema(db_info) ==
    IF /\ Cardinality(db_info.tables) > 2
       /\ center_tables(db_info.relationships) # {}
       /\ 3 * Cardinality(center_tables(db_info.relationships))
             < Cardinality(db_info.tables)
    THEN "star_or_snowflake" ELSE "unknown"

AnalyzeCall(t) ==
    /\ th[t].pc = "idle"
    /\ \E n \in 0..MaxTables :
         \E relationships \in SetsUpTo(Relationships(1..n), MaxEdges) :
            LET db_info == [tables |-> 1..n, relationships |-> relationships]
            IN th' = [th EXCEPT ![t] =
                        [IdleThread EXCEPT
                            !.kind = "analyze", !.db_info = db_info,
                            !.schema_type = analyze_database_schema(db_info),
                            !.pc = "done"]]
    /\ UNCHANGED <<active_connections, conversation_histories, connection_lock,
                   conns, has_last_cleanup, last_cleanup, now, sweep_starts>>

NextSchema == AnalyzeCall(MainThread) \/ Finish(MainThread)

SpecSchema == Init /\ [][NextSchema]_vars

(* The tables that more than one other table refers to.                    *)
MultiplyReferenced(db_info) ==
    {table \in db_info.tables :
        Cardinality({rel.from_table : rel \in
            {r \in db_info.relationships :
                r.to_table = table /\ r.from_table # table}}) > 1}

(* C26: the analysis labels a snapshot star/snowflake exactly when it has  *)
(* more than 2 tables, some table is referred to by more than one other    *)
(* table, and fewer than one third of the tables are; otherwise the label  *)
(* stays unknown.                                                          *)
C26_StarExactly ==
    \A t \in Threads :
        (th[t].kind = "analyze" /\ th[t].pc = "done")
            => LET d == th[t].db_info
                   star == /\ Cardinality(d.tables) > 2
                           /\ MultiplyReferenced(d) # {}
                           /\ 3 * Cardinality(MultiplyReferenced(d))
                                 < Cardinality(d.tables)
               IN /\ star <=> th[t].schema_type = "star_or_snowflake"
                  /\ ~star <=> th[t].schema_type = "unknown"

(* C27: in a stream the done event is the last event: no stream holds both *)
(* a done event and an error event, and nothing follows done.              *)
C27_DoneIsTerminal ==
    \A t \in Threads :
        LET evs == th[t].events
        IN \A i \in 1..Len(evs) :
              evs[i] = "done" => (i = Len(evs) /\ Count(evs, "error") = 0)

PoolEntry(ac, s, k) ==
    IF s \in DOMAIN ac /\ k \in DOMAIN ac[s] THEN ac[s][k] ELSE None
AllKeys == {connection_key(cfg) : cfg \in AllConfigs}
AcquireFailed(t) ==
    th[t].kind = "acquire" /\ th[t].pc = "done" /\ th[t].fault = "acquire"

(* C28: when the creation of the connection fails, the acquire returns the *)
(* error and the pool holds no entry under the request's session and key;  *)
(* up to the failure the acquire changes no other pool entry and no        *)
(* conversation history.                                                   *)
C28_FailedCreateLeavesNoEntry ==
    /\ [](\A t \in Threads :
            AcquireFailed(t)
                => PoolEntry(active_connections, th[t].sid,
                             connection_key(th[t].config)) = None)
    /\ [][\A t \in Threads :
            (th[t].pc \in {"acq_check", "acq_probe", "acq_create"} /\ Acts(t))
                => /\ conversation_histories' = conversation_histories
                   /\ \A s \in Sessions, k \in AllKeys :
                         (s # th[t].sid \/ k # connection_key(th[t].config))
                             => PoolEntry(active_connections', s, k)
                                  = PoolEntry(active_connections, s, k)]_vars

(* An acquire failed to replace a dropped connection that had been pooled  *)
(* under its key, while another entry is pooled.                           *)
C28_Witness ==
    \E t \in Threads :
        /\ AcquireFailed(t)
        /\ \E c \in DOMAIN conns :
              /\ conns[c].sid = th[t].sid
              /\ conns[c].key = connection_key(th[t].config)
              /\ ~conns[c].connected
        /\ \E s \in Sessions, k \in AllKeys :
              /\ (s # th[t].sid \/ k # connection_key(th[t].config))
              /\ PoolEntry(active_connections, s, k) # None

(* C29: the sanitizer is idempotent, and a sanitized text does not end     *)
(* with the statement terminator.                                          *)
C29_SanitizeIdempotent ==
    \A t \in Threads :
        \A family \in {"sentinel", "fenced", "statement"} :
            TextEnded(t, family)
                => LET out == clean_sql_query(th[t].llm_output)
                   IN /\ clean_sql_query(out) = out
                      /\ out = <<>> \/ out[Len(out)] # ";"

(* ------------- the shell's history next to the web session's ------------ *)
(* ai_interactive_shell keeps its turns in a local list (llm_interaction.py *)
(* line 364) and appends to it at line 420-425.                            *)
ShellHistoryLimit == 10
LastTurns(h, n) == IF Len(h) > n THEN SubSeq(h, Len(h) - n + 1, Len(h)) ELSE h

(* The shell's append that keeps one turn less above the limit.            *)
shell_history_append_short(conversation_history, user_question, sql_query) ==
    LET appended == Append(conversation_history, <<user_question, sql_query>>)
    IN IF Len(appended) > ShellHistoryLimit
       THEN LastTurns(appended, ShellHistoryLimit - 1)
       ELSE appended

(* llm_interaction.py line 421-425: append, then keep the last 10 when     *)
(* there are more than 10.                                                 *)
shell_history_append(conversation_history, user_question, sql_query) ==
    LET appended == Append(conversation_history, <<user_question, sql_query>>)
    IN IF Len(appended) > ShellHistoryLimit
       THEN LastTurns(appended, ShellHistoryLimit)
       ELSE appended

(* line 364: the shell starts with an empty history.                       *)
ShellStart(t) ==
    /\ th[t].pc = "idle"
    /\ th' = [th EXCEPT ![t] = [IdleThread EXCEPT !.kind = "shell", !.pc = "shell_loop"]]
    /\ UNCHANGED <<active_connections, conversation_histories, connection_lock,
                   conns, has_last_cleanup, last_cleanup, now, sweep_starts>>

(* The same turn is appended to the shell's history and to the history of  *)
(* a web session; the turns carry the numbers 1, 2, ... as questions.      *)
TurnAppend(t) ==
    /\ th[t].pc = "shell_loop"
    /\ th[t].appended < MaxAppends
    /\ \E sid \in StreamSessions, sql \in HistoryQueries :
         LET user_question == th[t].appended + 1
         IN /\ conversation_histories' =
                  add_to_conversation_history(conversation_histories, sid,
                                              user_question, sql)
            /\ th' = [th EXCEPT
                        ![t].conversation_history =
                            shell_history_append(th[t].conversation_history,
                                                 user_question, sql),
                        ![t].appended = user_question]
    /\ UNCHANGED <<active_connections, connection_lock, conns, has_last_cleanup,
                   last_cleanup, now, sweep_starts>>

NextShell == ShellStart(MainThread) \/ TurnAppend(MainThread)

SpecShell == Init /\ [][NextShell]_vars

Min(a, b) == IF a < b THEN a ELSE b

(* C30: after n appends of the same turns from empty, the web session's    *)
(* history and the shell's history are the same sequence: the last         *)
(* min(n, 10) turns in the order they were appended.                       *)
C30_HistoriesEquivalent ==
    \A t \in Threads :
        th[t].kind = "shell"
            => LET web == HistoryOf(conversation_histories, "s1")
                   shell == th[t].conversation_history
                   n == th[t].appended
               IN /\ web = shell
                  /\ Len(shell) = Min(n, 10)
                  /\ \A i \in 1..Len(shell) : shell[i][1] = n - Len(shell) + i

(* More than 10 turns were appended, and both histories hold the last 10.  *)
C30_Witness ==
    \E t \in Threads :
        /\ th[t].kind = "shell" /\ th[t].appended = 12
        /\ Len(th[t].conversation_history) = 10
        /\ th[t].conversation_history[1][1] = 3
        /\ HistoryOf(conversation_histories, "s1") = th[t].conversation_history

====
